---------------------------- MODULE Spec2Model ----------------------------
(***************************************************************************)
(* A model of jupytext/cell_to_text.py: the per-dialect cell exporters.    *)
(*                                                                         *)
(* Text.  A Python string is a sequence of tokens.  A token is a single    *)
(* character ("#", " ", "-", "\n", ...) or an atomic word ("x", "region",  *)
(* "endofcell", ...) standing for a fixed run of letters with no blank and *)
(* no punctuation in it.  A line is a string without line terminator, a    *)
(* text (a Python list of lines) is a sequence of lines.                   *)
(*                                                                         *)
(* Dictionaries.  A Python dict is the sequence of its <<key, value>>      *)
(* pairs in insertion order.  A value is a string (token sequence) or a    *)
(* natural number.                                                         *)
(*                                                                         *)
(* None.  An optional value is a set with at most one element: {} is None. *)
(*                                                                         *)
(* Objects.  heap maps a reference to the dict stored there, so that two   *)
(* names for one dict (cell.metadata and self.unfiltered_metadata) see     *)
(* each other's writes and a copy does not.                                *)
(***************************************************************************)
EXTENDS Integers, Sequences, FiniteSets, TLC

VARIABLES
    pc,        \* "new" | "built" | "exported" | "failed": where the driver stands
    cell,      \* the caller's cell: [cell_type, source, metadata (a reference)]
    given,     \* what the driver handed over: the cell, its metadata, the format
    heap,      \* reference -> dict
    fmt,       \* the caller's format dict (self.fmt is the same object)
    exp,       \* the exporter's fields
    text,      \* the lines last returned by cell_to_text and its post-processing
    ret,       \* the value last returned by is_code
    last,      \* what the last operation was and the inputs it was given
    warnings,  \* how many warnings were emitted
    err,       \* the exception that ended the last operation, "" when none
    ncalls     \* how many operations were called on the exporter

vars == <<pc, cell, given, heap, fmt, exp, text, ret, last, warnings, err, ncalls>>

---------------------------------------------------------------------------
(* Bounds of the model *)

\* How many lines a cell's source has at most.
MaxLines == 2
\* The largest recorded blank-line count (lines_to_next_cell, ...).
MaxBlank == 2
\* How many operations are called on one exporter at most.
MaxCalls == 3

---------------------------------------------------------------------------
(* Python's built-ins *)

\* F applied to the value of v, which is computed once
With(v, F(_)) == CHOOSE y \in {F(x) : x \in {v}} : TRUE

None == {}
Some(x) == {x}
\* bool(o), for o an optional string: neither None nor empty
Truthy(o) == o # {} /\ \A x \in o : x # <<>>
The(o) == CHOOSE x \in o : TRUE

Last(s) == s[Len(s)]
Front(s) == SubSeq(s, 1, Len(s) - 1)
Range(s) == {s[i] : i \in 1..Len(s)}

RECURSIVE SeqsUpTo(_, _)
SeqsUpTo(S, n) ==
    IF n = 0 THEN {<<>>}
    ELSE LET prev == SeqsUpTo(S, n - 1)
         IN prev \cup {Append(s, x) : s \in {t \in prev : Len(t) = n - 1}, x \in S}

\* s.startswith(p)
StartsWith(s, p) == Len(p) <= Len(s) /\ SubSeq(s, 1, Len(p)) = p
DropN(s, n) == SubSeq(s, n + 1, Len(s))

\* \s of the re module
IsSpace(c) == c \in {" ", "\t", "\n", "\r"}
AllSpace(s) == \A i \in 1..Len(s) : IsSpace(s[i])
RECURSIVE SkipSpace(_)
SkipSpace(s) == IF s # <<>> /\ IsSpace(Head(s)) THEN SkipSpace(Tail(s)) ELSE s
\* s.strip() is empty
StripIsEmpty(s) == AllSpace(s)

\* [x] * n
RECURSIVE Repeat(_, _)
Repeat(x, n) == IF n <= 0 THEN <<>> ELSE <<x>> \o Repeat(x, n - 1)

\* sep.join(parts)
RECURSIVE Join(_, _)
Join(parts, sep) ==
    IF parts = <<>> THEN <<>>
    ELSE IF Len(parts) = 1 THEN parts[1]
    ELSE parts[1] \o sep \o Join(Tail(parts), sep)

\* s.find(c): the first position of token c in s, 0 when absent
RECURSIVE Find(_, _, _)
Find(s, c, i) == IF i > Len(s) THEN 0 ELSE IF s[i] = c THEN i ELSE Find(s, c, i + 1)

\* str.splitlines(): the line terminators are \n, \r and \r\n; a terminator
\* ends a line even when the line is empty, the end of the string ends a
\* line only when it is not.
RECURSIVE SplitFrom(_, _, _)
SplitFrom(s, i, cur) ==
    IF i > Len(s) THEN (IF cur = <<>> THEN <<>> ELSE <<cur>>)
    ELSE IF s[i] = "\r" /\ i < Len(s) /\ s[i + 1] = "\n"
         THEN <<cur>> \o SplitFrom(s, i + 2, <<>>)
    ELSE IF s[i] \in {"\n", "\r"} THEN <<cur>> \o SplitFrom(s, i + 1, <<>>)
    ELSE SplitFrom(s, i + 1, Append(cur, s[i]))
splitlines(s) == SplitFrom(s, 1, <<>>)

(* dict *)
RECURSIVE KeyPos(_, _, _)
KeyPos(d, k, i) == IF i > Len(d) THEN 0 ELSE IF d[i][1] = k THEN i ELSE KeyPos(d, k, i + 1)
\* k in d
Has(d, k) == KeyPos(d, k, 1) # 0
\* d[k]
Get(d, k) == d[KeyPos(d, k, 1)][2]
\* d.get(k), for a numeric value
GetOpt(d, k) == IF Has(d, k) THEN Some(Get(d, k)) ELSE None
\* d[k] = v
Set(d, k, v) == IF Has(d, k) THEN [d EXCEPT ![KeyPos(d, k, 1)] = <<k, v>>] ELSE Append(d, <<k, v>>)
\* del d[k], d.pop(k)
Del(d, k) ==
    LET p == KeyPos(d, k, 1)
    IN IF p = 0 THEN d ELSE SubSeq(d, 1, p - 1) \o SubSeq(d, p + 1, Len(d))
\* {key: d[key] for key in d if key not in ks}
RECURSIVE Without(_, _)
Without(d, ks) ==
    IF d = <<>> THEN <<>>
    ELSE IF Head(d)[1] \in ks THEN Without(Tail(d), ks)
    ELSE <<Head(d)>> \o Without(Tail(d), ks)

---------------------------------------------------------------------------
(* The modules cell_to_text.py imports *)

\* languages._SCRIPT_EXTENSIONS.get(ext, {}).get('comment', '#')
ScriptComment(ext) == IF ext = ".cpp" THEN <<"/", "/">> ELSE <<"#">>

\* languages.comment_lines(lines, prefix)
comment_lines(lines, prefix) ==
    IF prefix = <<>> THEN lines
    ELSE [i \in 1..Len(lines) |->
            IF lines[i] # <<>> THEN prefix \o <<" ">> \o lines[i] ELSE prefix]

\* The languages a %%language cell magic may name.
JupyterLanguages == {"R", "python"}

\* languages.cell_language(source): when the first line is %%language [args]
\* the line is removed from source and (language, args) returned, otherwise
\* (None, None).  The result carries the source as the call leaves it.
cell_language(source) ==
    LET line == source[1]
        magic == DropN(line, 2)
        sp == Find(magic, " ", 1)
        lang == IF sp = 0 THEN magic ELSE SubSeq(magic, 1, sp - 1)
        args == IF sp = 0 THEN <<>> ELSE DropN(magic, sp)
    IN IF source # <<>> /\ StartsWith(line, <<"%", "%">>)
          /\ Len(lang) = 1 /\ lang[1] \in JupyterLanguages
       THEN [language |-> Some(lang[1]), magic_args |-> Some(args), source |-> Tail(source)]
       ELSE [language |-> None, magic_args |-> None, source |-> source]

\* ext.replace('.', '')
ExtName(ext) ==
    CASE ext = ".py" -> "py" [] ext = ".R" -> "R" [] ext = ".Rmd" -> "Rmd"
      [] ext = ".md" -> "md" [] OTHER -> ext

\* cell_metadata.is_active(ext, metadata): a cell is active for every format
\* unless its 'active' entry names formats, and then for those only.
is_active(ext, metadata) ==
    IF ~Has(metadata, "active") THEN TRUE
    ELSE ExtName(ext) \in Range(Get(metadata, "active"))

\* cell_metadata._IGNORE_CELL_METADATA: the keys jupytext keeps for itself
IgnoreCellMetadata == {"cell_marker", "lines_to_next_cell", "lines_to_end_of_cell_marker"}

\* metadata_filter.filter_metadata(metadata, user_filter, default_filter): the
\* user's filter when there is one ("-all" drops every key, "-key" that key),
\* and the default filter's keys in any case.
filter_metadata(metadata, user_filter) ==
    LET kept == Without(metadata, IgnoreCellMetadata)
    IN IF user_filter = None THEN kept
       ELSE IF The(user_filter) = "-all" THEN <<>>
       ELSE Without(kept, {"key"})

\* magics.is_magic(line): a line meant for the kernel's magic processor
is_magic(line) == line # <<>> /\ line[1] \in {"%", "!"}

\* magics.comment_magic(source, language, comment_magics): comments the magic
\* lines that form the head of the cell
RECURSIVE comment_magic_from(_, _)
comment_magic_from(source, comment) ==
    IF source = <<>> THEN <<>>
    ELSE IF is_magic(Head(source))
         THEN <<comment \o <<" ">> \o Head(source)>> \o comment_magic_from(Tail(source), comment)
    ELSE IF Head(source) = <<>>
         THEN <<Head(source)>> \o comment_magic_from(Tail(source), comment)
    ELSE source
comment_magic(source, language, comment_magics) ==
    IF comment_magics = Some(TRUE) THEN comment_magic_from(source, <<"#">>) ELSE source

\* magics.escape_code_start(source, ext, language): comments the first line
\* of the cell when the reader would take it for a start-of-cell marker
is_escaped_code_start(line, ext) ==
    IF ext = ".R" THEN StartsWith(line, <<"#", "'">>) \/ StartsWith(line, <<"#", "+">>)
    ELSE StartsWith(line, <<"#">>) /\ StartsWith(SkipSpace(DropN(line, 1)), <<"+">>)
escape_code_start(source, ext, language) ==
    IF source # <<>> /\ is_escaped_code_start(source[1], ext)
    THEN <<ScriptComment(ext) \o <<" ">> \o source[1]>> \o Tail(source)
    ELSE source

\* cell_reader.LightScriptCellReader(fmt).read(source)[1]: how many lines of
\* source the reader takes for its first cell.  A cell without markers ends
\* with the first blank line that text follows.
RECURSIVE LightReaderPos(_, _)
LightReaderPos(source, i) ==
    IF i >= Len(source) THEN Len(source)
    ELSE IF source[i] = <<>> /\ source[i + 1] # <<>> THEN i
    ELSE LightReaderPos(source, i + 1)
LightScriptCellReader_read_pos(source) == LightReaderPos(source, 1)

\* cell_reader.MarkdownCellReader(fmt).read(source)[1], and the R Markdown
\* reader's: a markdown cell ends before a code fence that follows text, and
\* at two blank lines in a row that text follows.
\* The backquote character (a string of the module cannot hold it) and the
\* code fence, three of them
Tick == "tick"
Fence == <<Tick, Tick, Tick>>
IsFence(line) == StartsWith(line, Fence)
RECURSIVE MarkdownReaderPos(_, _)
MarkdownReaderPos(source, i) ==
    IF i >= Len(source) THEN Len(source)
    ELSE IF IsFence(source[i + 1]) /\ ~IsFence(source[1]) THEN i
    ELSE IF i + 2 <= Len(source) /\ source[i] = <<>> /\ source[i + 1] = <<>> THEN i
    ELSE MarkdownReaderPos(source, i + 1)
MarkdownCellReader_read_pos(source) == MarkdownReaderPos(source, 1)

\* json.dumps of a string, a number, a dict
NumTok(n) == CASE n = 0 -> "0" [] n = 1 -> "1" [] n = 2 -> "2" [] OTHER -> "3"
NumericKeys == {"lines_to_next_cell", "lines_to_end_of_cell_marker"}
JsonValue(k, v) == IF k \in NumericKeys THEN <<NumTok(v)>> ELSE <<"\"">> \o v \o <<"\"">>
JsonEntries(d) ==
    Join([i \in 1..Len(d) |-> <<"\"", d[i][1], "\"", ":", " ">> \o JsonValue(d[i][1], d[i][2])],
         <<",", " ">>)
\* json.dumps(d)
json_dumps(d) == <<"{">> \o JsonEntries(d) \o <<"}">>
\* cell_metadata.metadata_to_json_options(metadata)
metadata_to_json_options(metadata) == <<"{">> \o JsonEntries(metadata) \o <<"}">>

---------------------------------------------------------------------------
(* The exporter classes *)

Classes == {"Markdown", "RMarkdown", "LightScript", "BareScript", "RScript",
            "DoublePercent", "Hydrogen", "SphinxGallery"}
LightClasses == {"LightScript", "BareScript"}

\* default_comment_magics of each class
default_comment_magics(cls) ==
    CASE cls = "Markdown" -> Some(FALSE)
      [] cls = "Hydrogen" -> Some(FALSE)
      [] cls \in {"RMarkdown", "LightScript", "BareScript", "RScript",
                  "DoublePercent", "SphinxGallery"} -> Some(TRUE)
      [] OTHER -> None

\* parse_cell_language of each class
parse_cell_language(cls) == cls # "Hydrogen"

\* use_cell_markers of the light-script classes
use_cell_markers(cls) == cls # "BareScript"

\* The lines of the source as str.splitlines gives them
cell_source_splitlines(c) == splitlines(c.source)

\* cell_source(cell): the source of the cell as a list of lines
cell_source(c) ==
    IF c.source = <<>> THEN << <<>> >>
    ELSE IF Last(c.source) = "\n" THEN splitlines(c.source) \o << <<>> >>
    ELSE splitlines(c.source)

\* ext.endswith('.Rmd')
EndsWithRmd(ext) == ext = ".Rmd"

\* copy() that hands back the dict it was given
CopyRef_alias(r) == r

\* copy(cell.metadata): the reference of the new dict
CopyRef(r) == "exporter"

\* The magic_args entry the constructor writes, None when it writes none
MagicArgsEntry(cl, ext) ==
    IF cl.language # None /\ cl.magic_args # None /\ The(cl.magic_args) # <<>>
    THEN IF EndsWithRmd(ext)
         THEN LET quote == IF "'" \in Range(The(cl.magic_args)) THEN "\"" ELSE "'"
              IN Some(<<quote>> \o The(cl.magic_args) \o <<quote>>)
         ELSE cl.magic_args
    ELSE None

\* The constructor without the write of the language
BaseCellExporter_init_metadata_nolanguage(c, metadata0, cl, ext) ==
    With(MagicArgsEntry(cl, ext), LAMBDA magic_args :
    With(IF magic_args # None THEN Set(metadata0, "magic_args", The(magic_args))
         ELSE metadata0, LAMBDA metadata1 :
    IF c.cell_type = "raw" /\ ~Has(metadata1, "active")
    THEN Set(metadata1, "active", <<>>)
    ELSE metadata1))

\* The metadata of the exporter as the constructor leaves it: the filtered
\* copy, then magic_args, language and active
BaseCellExporter_init_metadata(c, metadata0, cl, ext) ==
    With(MagicArgsEntry(cl, ext), LAMBDA magic_args :
    With(IF magic_args # None THEN Set(metadata0, "magic_args", The(magic_args))
         ELSE metadata0, LAMBDA metadata1 :
    With(IF cl.language # None /\ ~EndsWithRmd(ext)
         THEN Set(metadata1, "language", <<The(cl.language)>>)
         ELSE metadata1, LAMBDA metadata2 :
    IF c.cell_type = "raw" /\ ~Has(metadata2, "active")
    THEN Set(metadata2, "active", <<>>)
    ELSE metadata2)))

\* BaseCellExporter.__init__: the exporter's fields and its metadata dict
BaseCellExporter_init(cls, c, md_cell, default_language, f) ==
    With(cell_source(c), LAMBDA source0 :
    With(IF parse_cell_language(cls) THEN cell_language(source0)
         ELSE [language |-> None, magic_args |-> None, source |-> source0], LAMBDA cl :
    [exp |-> [cls |-> cls,
              ext |-> f.extension,
              cell_type |-> c.cell_type,
              source |-> cl.source,
              mref |-> CopyRef(c.metadata),
              uref |-> c.metadata,
              detected |-> cl.language,
              language |-> IF cl.language # None THEN cl.language ELSE default_language,
              default_language |-> default_language,
              comment |-> ScriptComment(f.extension),
              comment_magics |-> IF f.comment_magics # None THEN f.comment_magics
                                 ELSE default_comment_magics(cls),
              lines_to_next_cell |-> GetOpt(md_cell, "lines_to_next_cell"),
              lines_to_end_of_cell_marker |-> GetOpt(md_cell, "lines_to_end_of_cell_marker"),
              cell_marker_start |-> None,
              cell_marker_end |-> None,
              cell_markers |-> None],
     metadata |-> BaseCellExporter_init_metadata(
                      c, filter_metadata(md_cell, f.cell_metadata_filter), cl, f.extension)]))

\* BaseCellExporter.is_code
BaseCellExporter_is_code(e, metadata) ==
    IF e.cell_type = "code" THEN TRUE
    ELSE IF e.cell_type = "raw" /\ Has(metadata, "active") THEN TRUE
    ELSE FALSE

\* BaseCellExporter.markdown_to_text
markdown_to_text(e, source) ==
    comment_lines(IF e.comment # <<>> /\ e.comment # <<"#", "'">>
                  THEN comment_magic(source, e.language, e.comment_magics)
                  ELSE source,
                  e.comment)

---------------------------------------------------------------------------
(* LightScriptCellExporter and BareScriptCellExporter *)

\* endofcell_re.match(line), for r'^{comment}( ){endofcell}\s*$'
endofcell_re_match(line, comment, endofcell) ==
    /\ StartsWith(line, comment \o <<" ">> \o endofcell)
    /\ AllSpace(DropN(line, Len(comment) + 1 + Len(endofcell)))

\* endofcell_marker(source, comment): the loop lengthens endofcell while a
\* line of source matches it
RECURSIVE endofcell_loop(_, _, _)
endofcell_loop(source, comment, endofcell) ==
    IF \E i \in 1..Len(source) : endofcell_re_match(source[i], comment, endofcell)
    THEN endofcell_loop(source, comment, endofcell \o <<"-">>)
    ELSE endofcell
\* endofcell_marker without its loop
endofcell_marker_noloop(source, comment) == <<"-">>
endofcell_marker(source, comment) == endofcell_loop(source, comment, <<"-">>)

\* fmt['cell_markers'].split(',', 1)
SplitMarkers(cm) ==
    [start |-> SubSeq(cm, 1, Find(cm, ",", 1) - 1), end |-> DropN(cm, Find(cm, ",", 1))]

\* ',' not in fmt['cell_markers']
MalformedMarkers(f) == f.cell_markers # None /\ "," \notin Range(The(f.cell_markers))
\* the pair is well formed and is not '+,-'
CustomMarkers(f) ==
    /\ f.cell_markers # None
    /\ ~MalformedMarkers(f)
    /\ The(f.cell_markers) # <<"+", ",", "-">>

\* A constructor that takes a marker without a comma as both tokens, silently
LightScriptCellExporter_init_lenient(cls, c, md_cell, default_language, f) ==
    With(BaseCellExporter_init(cls, c, md_cell, default_language, f), LAMBDA b :
    [exp |-> [b.exp EXCEPT
                !.cell_marker_start = IF MalformedMarkers(f) THEN f.cell_markers
                                      ELSE IF CustomMarkers(f)
                                      THEN Some(SplitMarkers(The(f.cell_markers)).start)
                                      ELSE None,
                !.cell_marker_end = IF MalformedMarkers(f) THEN f.cell_markers
                                    ELSE IF CustomMarkers(f)
                                    THEN Some(SplitMarkers(The(f.cell_markers)).end)
                                    ELSE None],
     metadata |-> IF Has(md_cell, "endofcell")
                  THEN Set(b.metadata, "endofcell", Get(md_cell, "endofcell"))
                  ELSE b.metadata,
     fmt |-> f,
     warned |-> FALSE])

\* LightScriptCellExporter.__init__: after the base constructor, the marker
\* pair and the endofcell entry: [exp, metadata, fmt, warned]
LightScriptCellExporter_init(cls, c, md_cell, default_language, f) ==
    With(BaseCellExporter_init(cls, c, md_cell, default_language, f), LAMBDA b :
    [exp |-> [b.exp EXCEPT
                !.cell_marker_start = IF CustomMarkers(f)
                                      THEN Some(SplitMarkers(The(f.cell_markers)).start)
                                      ELSE None,
                !.cell_marker_end = IF CustomMarkers(f)
                                    THEN Some(SplitMarkers(The(f.cell_markers)).end)
                                    ELSE None],
     metadata |-> IF Has(md_cell, "endofcell")
                  THEN Set(b.metadata, "endofcell", Get(md_cell, "endofcell"))
                  ELSE b.metadata,
     fmt |-> IF MalformedMarkers(f) THEN [f EXCEPT !.cell_markers = None] ELSE f,
     warned |-> MalformedMarkers(f)])

\* LightScriptCellExporter.is_code: [exp, metadata, ret]
LightScriptCellExporter_is_code(e, metadata) ==
    IF e.cell_type = "markdown" /\ metadata # <<>>
    THEN [exp |-> [e EXCEPT !.source = comment_lines(e.source, e.comment)],
          metadata |-> Set(metadata, "cell_type", <<e.cell_type>>),
          ret |-> TRUE]
    ELSE [exp |-> e, metadata |-> metadata, ret |-> BaseCellExporter_is_code(e, metadata)]

\* start_code_re.match(line), for '^' + comment + r'\s*' + cell_marker_start + r'\s*(.*)$'
start_code_re_match(line, comment, marker) ==
    StartsWith(line, comment) /\ StartsWith(SkipSpace(DropN(line, Len(comment))), marker)

\* end_code_re.match(line), for '^' + comment + r'\s*' + cell_marker_end + r'\s*$'
end_code_re_match(line, comment, marker) ==
    /\ StartsWith(line, comment)
    /\ StartsWith(SkipSpace(DropN(line, Len(comment))), marker)
    /\ AllSpace(DropN(SkipSpace(DropN(line, Len(comment))), Len(marker)))

\* explicit_start_marker with a custom pair always asking for the marker
explicit_start_marker_custom(e, metadata, source) ==
    IF ~use_cell_markers(e.cls) THEN FALSE
    ELSE IF metadata # <<>> THEN TRUE
    ELSE IF Truthy(e.cell_marker_start) THEN TRUE
    ELSE IF \A i \in 1..Len(e.source) : StartsWith(e.source[i], e.comment) THEN TRUE
    ELSE IF LightScriptCellReader_read_pos(source) < Len(source) THEN TRUE
    ELSE FALSE

\* LightScriptCellExporter.explicit_start_marker(source)
explicit_start_marker(e, metadata, source) ==
    IF ~use_cell_markers(e.cls) THEN FALSE
    ELSE IF metadata # <<>> THEN TRUE
    ELSE IF Truthy(e.cell_marker_start)
            /\ (start_code_re_match(source[1], e.comment, The(e.cell_marker_start))
                \/ end_code_re_match(source[1], e.comment, The(e.cell_marker_end)))
         THEN FALSE
    ELSE IF \A i \in 1..Len(e.source) : StartsWith(e.source[i], e.comment) THEN TRUE
    ELSE IF LightScriptCellReader_read_pos(source) < Len(source) THEN TRUE
    ELSE FALSE

\* active, as code_to_text computes it
LightScript_active(e, metadata) ==
    IF e.language # e.default_language /\ ~Has(metadata, "active") THEN FALSE
    ELSE is_active(e.ext, metadata)

\* The lines of the cell as code_to_text renders them, before any marker
LightScript_rendered_source(e, metadata) ==
    With(escape_code_start(e.source, e.ext, e.language), LAMBDA source0 :
    IF LightScript_active(e, metadata)
    THEN comment_magic(source0, e.language, e.comment_magics)
    ELSE [i \in 1..Len(source0) |->
            IF source0[i] # <<>> THEN e.comment \o <<" ">> \o source0[i] ELSE e.comment])

\* The start-of-cell line and the metadata left once it is written
LightScript_cell_start(e, metadata2) ==
    IF ~Truthy(e.cell_marker_start)
    THEN [metadata |-> metadata2,
          line |-> Join(<<e.comment, <<"+">>, metadata_to_json_options(metadata2)>>, <<" ">>)]
    ELSE IF metadata2 # <<>> /\ Has(metadata2, "title")
    THEN With(Del(metadata2, "title"), LAMBDA metadata3 :
         [metadata |-> metadata3,
          line |-> Join(<<e.comment, The(e.cell_marker_start), Get(metadata2, "title")>>
                        \o (IF metadata3 # <<>>
                            THEN <<metadata_to_json_options(metadata3)>> ELSE <<>>),
                        <<" ">>)])
    ELSE [metadata |-> metadata2,
          line |-> Join(<<e.comment, The(e.cell_marker_start)>>
                        \o (IF metadata2 # <<>>
                            THEN <<metadata_to_json_options(metadata2)>> ELSE <<>>),
                        <<" ">>)]

\* code_to_text that keeps the endofcell entry of a default end token
LightScriptCellExporter_code_to_text_keepentry(e, metadata0) ==
    With(LightScript_rendered_source(e, metadata0), LAMBDA source :
    With(IF explicit_start_marker(e, metadata0, source)
         THEN Set(metadata0, "endofcell",
                  IF Truthy(e.cell_marker_end) THEN The(e.cell_marker_end)
                  ELSE endofcell_marker(source, e.comment))
         ELSE metadata0, LAMBDA metadata1 :
    IF metadata1 = <<>> \/ ~use_cell_markers(e.cls)
    THEN [metadata |-> metadata1, lines |-> source]
    ELSE With(Get(metadata1, "endofcell"), LAMBDA endofcell :
         With(LightScript_cell_start(e,
                  IF Truthy(e.cell_marker_end)
                  THEN Del(metadata1, "endofcell") ELSE metadata1), LAMBDA s :
         [metadata |-> s.metadata,
          lines |-> <<s.line>> \o source \o <<e.comment \o <<" ">> \o endofcell>>]))))

\* LightScriptCellExporter.code_to_text: [metadata, lines]
LightScriptCellExporter_code_to_text(e, metadata0) ==
    With(LightScript_rendered_source(e, metadata0), LAMBDA source :
    With(IF explicit_start_marker(e, metadata0, source)
         THEN Set(metadata0, "endofcell",
                  IF Truthy(e.cell_marker_end) THEN The(e.cell_marker_end)
                  ELSE endofcell_marker(source, e.comment))
         ELSE metadata0, LAMBDA metadata1 :
    IF metadata1 = <<>> \/ ~use_cell_markers(e.cls)
    THEN [metadata |-> metadata1, lines |-> source]
    ELSE With(Get(metadata1, "endofcell"), LAMBDA endofcell :
         With(LightScript_cell_start(e,
                  IF endofcell = <<"-">> \/ Truthy(e.cell_marker_end)
                  THEN Del(metadata1, "endofcell") ELSE metadata1), LAMBDA s :
         [metadata |-> s.metadata,
          lines |-> <<s.line>> \o source \o <<e.comment \o <<" ">> \o endofcell>>]))))

\* remove_eoc_marker taking the larger count even when the count of the end
\* marker is zero
remove_eoc_marker_max(e, code, txt, next_text, pep8) ==
    IF Truthy(e.cell_marker_start) THEN [text |-> txt, lines_to_next_cell |-> e.lines_to_next_cell]
    ELSE IF code /\ Last(txt) = e.comment \o <<" ", "-">>
    THEN IF next_text = <<>> \/ StartsWith(next_text[1], e.comment \o <<" ", "+", " ", "{">>)
         THEN [text |-> Front(txt),
               lines_to_next_cell |->
                   IF /\ e.lines_to_end_of_cell_marker # None
                      /\ (\/ e.lines_to_next_cell = None
                          \/ The(e.lines_to_end_of_cell_marker) > The(e.lines_to_next_cell))
                   THEN e.lines_to_end_of_cell_marker
                   ELSE e.lines_to_next_cell]
         ELSE [text |-> Front(txt)
                        \o Repeat(<<>>, IF e.lines_to_end_of_cell_marker # None
                                        THEN The(e.lines_to_end_of_cell_marker)
                                        ELSE IF pep8 < 2 THEN 0 ELSE 2)
                        \o <<Last(txt)>>,
               lines_to_next_cell |-> e.lines_to_next_cell]
    ELSE [text |-> txt, lines_to_next_cell |-> e.lines_to_next_cell]

\* remove_eoc_marker inserting the pep8 answer itself, not 0 or 2
remove_eoc_marker_pep8(e, code, txt, next_text, pep8) ==
    IF Truthy(e.cell_marker_start) THEN [text |-> txt, lines_to_next_cell |-> e.lines_to_next_cell]
    ELSE IF code /\ Last(txt) = e.comment \o <<" ", "-">>
    THEN IF next_text = <<>> \/ StartsWith(next_text[1], e.comment \o <<" ", "+", " ", "{">>)
         THEN [text |-> Front(txt), lines_to_next_cell |-> e.lines_to_next_cell]
         ELSE [text |-> Front(txt)
                        \o Repeat(<<>>, IF e.lines_to_end_of_cell_marker # None
                                        THEN The(e.lines_to_end_of_cell_marker)
                                        ELSE pep8)
                        \o <<Last(txt)>>,
               lines_to_next_cell |-> e.lines_to_next_cell]
    ELSE [text |-> txt, lines_to_next_cell |-> e.lines_to_next_cell]

\* LightScriptCellExporter.remove_eoc_marker(text, next_text), given what
\* is_code returned and pep8_lines_between_cells answers:
\* [text, lines_to_next_cell]
remove_eoc_marker(e, code, txt, next_text, pep8) ==
    IF Truthy(e.cell_marker_start) THEN [text |-> txt, lines_to_next_cell |-> e.lines_to_next_cell]
    ELSE IF code /\ Last(txt) = e.comment \o <<" ", "-">>
    THEN IF next_text = <<>> \/ StartsWith(next_text[1], e.comment \o <<" ", "+", " ", "{">>)
         THEN [text |-> Front(txt),
               lines_to_next_cell |->
                   IF /\ e.lines_to_end_of_cell_marker # None
                      /\ The(e.lines_to_end_of_cell_marker) # 0
                      /\ (\/ e.lines_to_next_cell = None
                          \/ The(e.lines_to_end_of_cell_marker) > The(e.lines_to_next_cell))
                   THEN e.lines_to_end_of_cell_marker
                   ELSE e.lines_to_next_cell]
         ELSE [text |-> Front(txt)
                        \o Repeat(<<>>, IF e.lines_to_end_of_cell_marker # None
                                        THEN The(e.lines_to_end_of_cell_marker)
                                        ELSE IF pep8 < 2 THEN 0 ELSE 2)
                        \o <<Last(txt)>>,
               lines_to_next_cell |-> e.lines_to_next_cell]
    ELSE [text |-> txt, lines_to_next_cell |-> e.lines_to_next_cell]

\* LightScriptCellExporter.simplify_soc_marker(text, prev_text), given what
\* is_code returned
simplify_soc_marker(e, code, txt, prev_text) ==
    IF Truthy(e.cell_marker_start) THEN txt
    ELSE IF code /\ txt # <<>> /\ txt[1] = e.comment \o <<" ", "+", " ", "{", "}">>
            /\ (prev_text = <<>> \/ StripIsEmpty(Last(prev_text)))
         THEN [txt EXCEPT ![1] = e.comment \o <<" ", "+">>]
    ELSE txt

---------------------------------------------------------------------------
(* The option strings of cell_metadata *)

\* key=value, for one entry
OptionEntry(k, v) == <<k, "=">> \o JsonValue(k, v)

\* cell_metadata.metadata_to_md_options(metadata)
metadata_to_md_options(metadata) ==
    Join([i \in 1..Len(metadata) |-> OptionEntry(metadata[i][1], metadata[i][2])], <<" ">>)

\* cell_metadata.metadata_to_rmd_options(language, metadata): the language,
\* then key=value for each entry, joined by ', '
metadata_to_rmd_options(language, metadata) ==
    Join((IF language # None THEN <<<<The(language)>>>> ELSE <<>>)
         \o [i \in 1..Len(metadata) |->
               <<metadata[i][1], "=">> \o
               (IF metadata[i][1] = "eval" THEN metadata[i][2]
                ELSE JsonValue(metadata[i][1], metadata[i][2]))],
         <<",", " ">>)

\* cell_metadata.metadata_to_double_percent_options(metadata): the title, the
\* cell type in brackets, the other entries as JSON; title and cell_type
\* are popped from metadata.  [options, metadata]
metadata_to_double_percent_options(metadata) ==
    With(Without(metadata, {"title", "cell_type"}), LAMBDA rest :
    [options |-> Join((IF Has(metadata, "title") THEN <<Get(metadata, "title")>> ELSE <<>>)
                      \o (IF Has(metadata, "cell_type")
                          THEN <<<<"[">> \o Get(metadata, "cell_type") \o <<"]">>>> ELSE <<>>)
                      \o (IF rest # <<>> THEN <<metadata_to_json_options(rest)>> ELSE <<>>),
                      <<" ">>),
     metadata |-> rest])

---------------------------------------------------------------------------
(* MarkdownCellExporter and RMarkdownCellExporter *)

\* MarkdownCellExporter.__init__, RMarkdownCellExporter.__init__
MarkdownCellExporter_init(cls, c, md_cell, default_language, f) ==
    With(BaseCellExporter_init(cls, c, md_cell, default_language, f), LAMBDA b :
    [exp |-> [b.exp EXCEPT !.comment = <<>>,
                           !.ext = IF cls = "RMarkdown" THEN ".Rmd" ELSE b.exp.ext],
     metadata |-> b.metadata])

\* 'title' in metadata and '{' not in metadata['title'], for a metadata that
\* is not empty
PopsTitle(metadata) ==
    metadata # <<>> /\ Has(metadata, "title") /\ "{" \notin Range(Get(metadata, "title"))

\* MarkdownCellExporter.html_comment(metadata, code): [metadata, lines]
html_comment(e, metadata, code) ==
    With(IF PopsTitle(metadata) THEN Del(metadata, "title") ELSE metadata, LAMBDA metadata1 :
    [metadata |-> metadata1,
     lines |-> << IF metadata # <<>>
                  THEN Join(<<<<"<!--", " ", "#", code>>>>
                            \o (IF PopsTitle(metadata) THEN <<Get(metadata, "title")>> ELSE <<>>)
                            \o <<json_dumps(metadata1), <<"-->">>>>, <<" ">>)
                  ELSE <<"<!--", " ", "#", code, " ", "-->">> >>
               \o e.source
               \o <<<<"<!--", " ", "#", "end", code, " ", "-->">>>>])

\* MarkdownCellExporter.code_to_text: [metadata, lines]
MarkdownCellExporter_code_to_text(e, metadata) ==
    With(Without(metadata, {"active", "language"}), LAMBDA filtered_metadata :
    IF e.cell_type = "raw"
    THEN [metadata |-> metadata, lines |-> html_comment(e, filtered_metadata, "raw").lines]
    ELSE [metadata |-> metadata,
          lines |-> << Fence \o Join((IF e.cell_type = "code" /\ e.language # None
                                      THEN <<<<The(e.language)>>>> ELSE <<>>)
                                     \o (IF filtered_metadata # <<>>
                                         THEN <<metadata_to_md_options(filtered_metadata)>>
                                         ELSE <<>>),
                                     <<" ">>) >>
                    \o comment_magic(e.source, e.language, e.comment_magics)
                    \o <<Fence>>])

\* code_to_text that writes eval only where the cell stored none
RMarkdownCellExporter_code_to_text_keepeval(e, metadata) ==
    With(IF ~is_active("Rmd", metadata) /\ ~Has(metadata, "eval")
         THEN Set(metadata, "eval", <<"FALSE">>)
         ELSE metadata, LAMBDA metadata1 :
    [metadata |-> metadata1,
     lines |-> << Fence \o <<"{">> \o metadata_to_rmd_options(e.language, metadata1)
                  \o <<"}">> >>
               \o (IF is_active(e.ext, metadata)
                   THEN comment_magic(e.source, e.language, e.comment_magics)
                   ELSE e.source)
               \o <<Fence>>])

\* RMarkdownCellExporter.code_to_text: [metadata, lines]
RMarkdownCellExporter_code_to_text(e, metadata) ==
    With(IF ~is_active("Rmd", metadata) THEN Set(metadata, "eval", <<"FALSE">>)
         ELSE metadata, LAMBDA metadata1 :
    [metadata |-> metadata1,
     lines |-> << Fence \o <<"{">> \o metadata_to_rmd_options(e.language, metadata1)
                  \o <<"}">> >>
               \o (IF is_active(e.ext, metadata)
                   THEN comment_magic(e.source, e.language, e.comment_magics)
                   ELSE e.source)
               \o <<Fence>>])

\* cell_to_text that asks for a region only when there is metadata
MarkdownCellExporter_cell_to_text_metadataonly(e, metadata) ==
    IF e.cell_type = "markdown"
    THEN IF metadata # <<>>
         THEN html_comment(e, metadata, "region")
         ELSE [metadata |-> metadata, lines |-> e.source]
    ELSE IF e.cls = "RMarkdown" THEN RMarkdownCellExporter_code_to_text(e, metadata)
    ELSE MarkdownCellExporter_code_to_text(e, metadata)

\* MarkdownCellExporter.cell_to_text: [metadata, lines]
MarkdownCellExporter_cell_to_text(e, metadata) ==
    IF e.cell_type = "markdown"
    THEN IF metadata # <<>> \/ MarkdownCellReader_read_pos(e.source) < Len(e.source)
         THEN html_comment(e, metadata, "region")
         ELSE [metadata |-> metadata, lines |-> e.source]
    ELSE IF e.cls = "RMarkdown" THEN RMarkdownCellExporter_code_to_text(e, metadata)
    ELSE MarkdownCellExporter_code_to_text(e, metadata)

---------------------------------------------------------------------------
(* RScriptCellExporter *)

\* RScriptCellExporter.__init__
RScriptCellExporter_init(cls, c, md_cell, default_language, f) ==
    With(BaseCellExporter_init(cls, c, md_cell, default_language, f), LAMBDA b :
    [exp |-> [b.exp EXCEPT !.comment = <<"#", "'">>], metadata |-> b.metadata])

\* The lines of the cell as RScriptCellExporter.code_to_text renders them
RScript_rendered_source(e, metadata) ==
    With(escape_code_start(e.source, e.ext, e.language), LAMBDA source0 :
    IF is_active(e.ext, metadata)
    THEN comment_magic(source0, e.language, e.comment_magics)
    ELSE [i \in 1..Len(source0) |->
            IF source0[i] # <<>> THEN <<"#", " ">> \o source0[i] ELSE <<"#">>])

\* RScriptCellExporter.code_to_text: [metadata, lines]
RScriptCellExporter_code_to_text(e, metadata) ==
    With(IF ~is_active("R", metadata) THEN Set(metadata, "eval", <<"FALSE">>)
         ELSE metadata, LAMBDA metadata1 :
    With(metadata_to_rmd_options(None, metadata1), LAMBDA options :
    [metadata |-> metadata1,
     lines |-> (IF options # <<>> THEN <<<<"#", "+", " ">> \o options>> ELSE <<>>)
               \o RScript_rendered_source(e, metadata)]))

---------------------------------------------------------------------------
(* DoublePercentCellExporter and HydrogenCellExporter *)

\* DoublePercentCellExporter.__init__
DoublePercentCellExporter_init(cls, c, md_cell, default_language, f) ==
    With(BaseCellExporter_init(cls, c, md_cell, default_language, f), LAMBDA b :
    [exp |-> [b.exp EXCEPT !.cell_markers = f.cell_markers], metadata |-> b.metadata])

\* active, as DoublePercentCellExporter.cell_to_text computes it
DoublePercent_active(e, metadata1) ==
    IF e.language # e.default_language /\ ~Has(metadata1, "active") THEN FALSE
    ELSE is_active("py", metadata1)

\* The header line of the cell
DoublePercent_header(e, options) ==
    IF StartsWith(options, <<"%">>) \/ options = <<>>
    THEN e.comment \o <<" ", "%", "%">> \o options
    ELSE e.comment \o <<" ", "%", "%", " ">> \o options

\* The marker of the format only, whatever the cell stored
DoublePercent_cell_marker_fmt(e, unfiltered) == e.cell_markers

\* self.unfiltered_metadata.get('cell_marker', self.cell_markers)
DoublePercent_cell_marker(e, unfiltered) ==
    IF Has(unfiltered, "cell_marker") THEN Some(Get(unfiltered, "cell_marker"))
    ELSE e.cell_markers

\* DoublePercentCellExporter.cell_to_text: [metadata, lines]
DoublePercentCellExporter_cell_to_text(e, metadata0, unfiltered) ==
    With(IF e.cell_type # "code" THEN Set(metadata0, "cell_type", <<e.cell_type>>)
         ELSE metadata0, LAMBDA metadata1 :
    With(metadata_to_double_percent_options(
             IF e.cell_type = "raw" /\ Has(metadata1, "active")
                /\ Get(metadata1, "active") = <<>>
             THEN Del(metadata1, "active") ELSE metadata1), LAMBDA o :
    With(<<DoublePercent_header(e, o.options)>>, LAMBDA lines :
    With(DoublePercent_cell_marker(e, unfiltered), LAMBDA cell_marker :
    [metadata |-> o.metadata,
     lines |-> IF e.cell_type = "code" /\ DoublePercent_active(e, metadata1)
               THEN With(comment_magic(e.source, e.language, e.comment_magics),
                         LAMBDA source : IF source = << <<>> >> THEN lines
                                         ELSE lines \o source)
               ELSE IF e.cell_type # "code" /\ cell_marker # None /\ The(cell_marker) # <<>>
               THEN lines \o <<The(cell_marker)>> \o e.source \o <<The(cell_marker)>>
               ELSE lines \o comment_lines(e.source, e.comment)]))))

---------------------------------------------------------------------------
(* SphinxGalleryCellExporter *)

\* The length of default_cell_marker, '#' * 79
DefaultCellMarkerLen == 79
default_cell_marker == [i \in 1..DefaultCellMarkerLen |-> "#"]
\* The length of the prefix '#' * 20 a marker of comment signs starts with
MarkerPrefixLen == 20

\* A constructor that does not look at rst2md
SphinxGalleryCellExporter_init_norst2md(cls, c, md_cell, default_language, f) ==
    With(BaseCellExporter_init(cls, c, md_cell, default_language, f), LAMBDA b :
    [exp |-> [b.exp EXCEPT !.comment = <<"#">>],
     metadata |-> IF Has(md_cell, "cell_marker")
                  THEN Set(b.metadata, "cell_marker", Get(md_cell, "cell_marker"))
                  ELSE b.metadata,
     raised |-> FALSE])

\* SphinxGalleryCellExporter.__init__: [exp, metadata, raised]
SphinxGalleryCellExporter_init(cls, c, md_cell, default_language, f) ==
    With(BaseCellExporter_init(cls, c, md_cell, default_language, f), LAMBDA b :
    [exp |-> [b.exp EXCEPT !.comment = <<"#">>],
     metadata |-> IF Has(md_cell, "cell_marker")
                  THEN Set(b.metadata, "cell_marker", Get(md_cell, "cell_marker"))
                  ELSE b.metadata,
     raised |-> f.rst2md = Some(TRUE)])

\* The lines of a markdown or raw cell under the given marker
SphinxGallery_text(e, cell_marker) ==
    IF e.source = << <<>> >>
    THEN (IF cell_marker \in {<<"\"", "\"">>, <<"'", "'">>} THEN <<cell_marker>>
          ELSE <<<<"\"", "\"">>>>)
    ELSE IF cell_marker \in {<<"\"", "\"", "\"">>, <<"'", "'", "'">>}
    THEN <<cell_marker>> \o e.source \o <<cell_marker>>
    ELSE <<IF StartsWith(cell_marker, [i \in 1..MarkerPrefixLen |-> "#"])
           THEN cell_marker ELSE default_cell_marker>>
         \o comment_lines(e.source, e.comment)

\* SphinxGalleryCellExporter.cell_to_text: [metadata, lines]
SphinxGalleryCellExporter_cell_to_text(e, metadata) ==
    IF e.cell_type = "code"
    THEN [metadata |-> metadata,
          lines |-> comment_magic(e.source, e.language, e.comment_magics)]
    ELSE [metadata |-> Del(metadata, "cell_marker"),
          lines |-> SphinxGallery_text(e, IF Has(metadata, "cell_marker")
                                          THEN Get(metadata, "cell_marker")
                                          ELSE default_cell_marker)]

---------------------------------------------------------------------------
(* Dispatch on the exporter's class *)

\* cls(cell, default_language, fmt): [exp, metadata, fmt, warned, raised]
Exporter_init(cls, c, md_cell, default_language, f) ==
    IF cls \in LightClasses
    THEN With(LightScriptCellExporter_init(cls, c, md_cell, default_language, f), LAMBDA r :
         [exp |-> r.exp, metadata |-> r.metadata, fmt |-> r.fmt,
          warned |-> r.warned, raised |-> FALSE])
    ELSE IF cls = "SphinxGallery"
    THEN With(SphinxGalleryCellExporter_init(cls, c, md_cell, default_language, f), LAMBDA r :
         [exp |-> r.exp, metadata |-> r.metadata, fmt |-> f,
          warned |-> FALSE, raised |-> r.raised])
    ELSE With(IF cls \in {"Markdown", "RMarkdown"}
              THEN MarkdownCellExporter_init(cls, c, md_cell, default_language, f)
              ELSE IF cls = "RScript"
              THEN RScriptCellExporter_init(cls, c, md_cell, default_language, f)
              ELSE DoublePercentCellExporter_init(cls, c, md_cell, default_language, f),
              LAMBDA r :
         [exp |-> r.exp, metadata |-> r.metadata, fmt |-> f,
          warned |-> FALSE, raised |-> FALSE])

\* self.is_code(): [exp, metadata, ret]
is_code(e, metadata) ==
    IF e.cls \in LightClasses THEN LightScriptCellExporter_is_code(e, metadata)
    ELSE [exp |-> e, metadata |-> metadata, ret |-> BaseCellExporter_is_code(e, metadata)]

\* self.code_to_text(): [metadata, lines]
code_to_text(e, metadata) ==
    IF e.cls \in LightClasses THEN LightScriptCellExporter_code_to_text(e, metadata)
    ELSE RScriptCellExporter_code_to_text(e, metadata)

\* BaseCellExporter.cell_to_text: [exp, metadata, lines]
BaseCellExporter_cell_to_text(e, metadata) ==
    With(is_code(e, metadata), LAMBDA c :
    IF c.ret
    THEN With(code_to_text(c.exp, c.metadata), LAMBDA r :
         [exp |-> c.exp, metadata |-> r.metadata, lines |-> r.lines])
    ELSE [exp |-> c.exp, metadata |-> c.metadata,
          lines |-> markdown_to_text(c.exp,
                        IF c.exp.comment = <<>>
                        THEN escape_code_start(c.exp.source, c.exp.ext, None)
                        ELSE c.exp.source)])

\* self.cell_to_text(): [exp, metadata, lines]
cell_to_text(e, metadata, unfiltered) ==
    IF e.cls \in {"Markdown", "RMarkdown"}
    THEN With(MarkdownCellExporter_cell_to_text(e, metadata), LAMBDA r :
         [exp |-> e, metadata |-> r.metadata, lines |-> r.lines])
    ELSE IF e.cls \in {"DoublePercent", "Hydrogen"}
    THEN With(DoublePercentCellExporter_cell_to_text(e, metadata, unfiltered), LAMBDA r :
         [exp |-> e, metadata |-> r.metadata, lines |-> r.lines])
    ELSE IF e.cls = "SphinxGallery"
    THEN With(SphinxGalleryCellExporter_cell_to_text(e, metadata), LAMBDA r :
         [exp |-> e, metadata |-> r.metadata, lines |-> r.lines])
    ELSE BaseCellExporter_cell_to_text(e, metadata)

---------------------------------------------------------------------------
(* The inputs: cells, formats, neighbouring texts *)

LineX == <<"x">>
LineBlank == <<>>
LineDash == <<"#", " ", "-">>
LineDashDash == <<"#", " ", "-", "-">>
LineMagicR == <<"%", "%", "R">>
LineMagicPython == <<"%", "%", "python">>
LineEndRegion == <<"#", " ", "endregion">>
LineQuotes == <<"\"", "\"">>

\* The sources of at most n lines over the given lines, as Python strings
SourcesOver(lines, n) == {Join(ls, <<"\n">>) : ls \in SeqsUpTo(lines, n)}

CellTypes == {"code", "markdown", "raw"}

MdNone == <<>>
MdKey == <<<<"key", <<"value">>>>>>
MdTitle == <<<<"title", <<"T">>>>>>
MdEndofcell == <<<<"endofcell", <<"-", "-">>>>>>
MdInactive == <<<<"active", <<"ipynb">>>>>>
MdEval == <<<<"eval", <<"TRUE">>>>>>
MdMarker == <<<<"cell_marker", <<"\"", "\"", "\"">>>>>>
MdInactiveEval == <<<<"active", <<"ipynb">>>>, <<"eval", <<"TRUE">>>>>>
MdActiveEval == <<<<"eval", <<"TRUE">>>>, <<"active", <<"ipynb", ",", "Rmd", ",", "R">>>>>>

\* The blank-line counts a reader records: each absent or in 0..MaxBlank
Counts == {None} \cup {Some(n) : n \in 0..MaxBlank}
MdCounts(eoc, nxt) ==
    (IF eoc # None THEN <<<<"lines_to_end_of_cell_marker", The(eoc)>>>> ELSE <<>>)
    \o (IF nxt # None THEN <<<<"lines_to_next_cell", The(nxt)>>>> ELSE <<>>)

Ext(cls) ==
    CASE cls = "Markdown" -> ".md" [] cls = "RMarkdown" -> ".Rmd"
      [] cls = "RScript" -> ".R" [] OTHER -> ".py"

Fmt(cls, markers, magics, filter, rst2md) ==
    [extension |-> Ext(cls), cell_markers |-> markers, comment_magics |-> magics,
     cell_metadata_filter |-> filter, rst2md |-> rst2md]

MarkersDefault == <<"+", ",", "-">>
MarkersRegion == <<"region", ",", "endregion">>
MarkersMalformed == <<"region">>
MarkersTwoCommas == <<"region", ",", "end", ",", "region">>
MarkersQuotes == <<"\"", "\"", "\"">>

Config(cls, ct, src, md, dl, f) ==
    [cls |-> cls, cell_type |-> ct, source |-> src, metadata |-> md,
     default_language |-> dl, fmt |-> f]

\* Light and bare scripts: markers and end-of-cell tokens
ConfigsLight ==
    {Config(cls, ct, src, md, Some("python"), Fmt(cls, mk, None, None, None)) :
        cls \in LightClasses, ct \in CellTypes,
        src \in SourcesOver({LineX, LineBlank, LineDash, LineDashDash, LineEndRegion},
                             MaxLines),
        md \in {MdNone, MdKey, MdEndofcell},
        mk \in {None, Some(MarkersRegion), Some(MarkersMalformed)}}
    \cup
    {Config("LightScript", ct, src, md, Some("python"),
            Fmt("LightScript", Some(MarkersDefault), None, None, None)) :
        ct \in CellTypes, src \in SourcesOver({LineX, LineBlank, LineDash}, MaxLines),
        md \in {MdNone, MdTitle}}
    \cup
    {Config("LightScript", "code", src, md, Some("python"),
            Fmt("LightScript", Some(MarkersTwoCommas), None, None, None)) :
        src \in SourcesOver({LineX}, 1), md \in {MdNone, MdKey, MdTitle}}

\* Light scripts: the blank lines around the end-of-cell marker
ConfigsBlankLines ==
    {Config("LightScript", "code", src, md \o MdCounts(eoc, nxt), Some("python"),
            Fmt("LightScript", None, None, None, None)) :
        src \in SourcesOver({LineX, LineDash}, 1), md \in {MdNone, MdKey},
        eoc \in Counts, nxt \in Counts}

\* Every class: the language of the cell
ConfigsLanguage ==
    {Config(cls, ct, src, MdNone, dl, Fmt(cls, None, None, flt, None)) :
        cls \in Classes, ct \in {"code", "markdown"},
        src \in SourcesOver({LineMagicR, LineMagicPython, LineX}, MaxLines),
        dl \in {None, Some("python"), Some("R")}, flt \in {None}}

\* The other classes: metadata, filters and options
ConfigsOther ==
    {Config(cls, ct, src, md, Some("python"), Fmt(cls, None, cm, flt, None)) :
        cls \in {"Markdown", "RMarkdown", "RScript"}, ct \in CellTypes,
        src \in SourcesOver({LineX, LineBlank, Fence}, MaxLines),
        md \in {MdNone, MdKey, MdTitle, MdInactive, MdEval},
        cm \in {None}, flt \in {None, Some("-all")}}
    \cup
    {Config(cls, ct, src, md, Some("python"), Fmt(cls, mk, None, None, None)) :
        cls \in {"DoublePercent", "Hydrogen"}, ct \in CellTypes,
        src \in SourcesOver({LineX, LineBlank}, MaxLines),
        md \in {MdNone, MdKey, MdTitle, MdInactive, MdMarker},
        mk \in {None, Some(MarkersQuotes)}}
    \cup
    {Config("SphinxGallery", ct, src, md, Some("python"),
            Fmt("SphinxGallery", None, None, None, rst)) :
        ct \in CellTypes, src \in SourcesOver({LineX, LineBlank, LineQuotes}, MaxLines),
        md \in {MdNone, MdKey, MdMarker}, rst \in {None, Some(FALSE), Some(TRUE)}}
    \cup
    {Config(cls, ct, src, md, Some("R"), Fmt(cls, None, None, None, None)) :
        cls \in {"RMarkdown", "RScript"}, ct \in CellTypes,
        src \in SourcesOver({LineX}, 1), md \in {MdInactiveEval, MdActiveEval}}
    \cup
    {Config(cls, ct, src, md, Some("python"), Fmt(cls, None, None, Some("-all"), None)) :
        cls \in {"DoublePercent", "SphinxGallery"}, ct \in {"code", "markdown"},
        src \in SourcesOver({LineX}, 1), md \in {MdKey, MdMarker}}

Configs == ConfigsLight \cup ConfigsBlankLines \cup ConfigsLanguage \cup ConfigsOther

\* The text of the next cell handed to remove_eoc_marker
NextTexts(cls) ==
    IF cls \in LightClasses
    THEN {<<>>, <<LineX>>, <<<<"#", " ", "+", " ", "{", "\"", "key", "\"", ":", " ",
                    "\"", "value", "\"", "}">>, LineX, LineDash>>}
    ELSE {<<>>}

\* The text of the previous cell handed to simplify_soc_marker
PrevTexts(cls) == IF cls \in LightClasses THEN {<<>>, <<LineX>>, <<LineX, LineBlank>>} ELSE {<<>>}

---------------------------------------------------------------------------
(* The state machine: the driver builds an exporter for a cell and calls it *)

NoExporter(cls, dl) ==
    [cls |-> cls, ext |-> "", cell_type |-> "", source |-> <<>>, mref |-> "exporter",
     uref |-> "cell", detected |-> None, language |-> None, default_language |-> dl,
     comment |-> <<>>, comment_magics |-> None, lines_to_next_cell |-> None,
     lines_to_end_of_cell_marker |-> None, cell_marker_start |-> None,
     cell_marker_end |-> None, cell_markers |-> None]

NoCall == [op |-> "none", text_in |-> <<>>, arg |-> <<>>, pep8 |-> 0,
           exp_in |-> NoExporter("", None), md_in |-> <<>>]

Call(op, arg, pep8) ==
    [op |-> op, text_in |-> text, arg |-> arg, pep8 |-> pep8,
     exp_in |-> exp, md_in |-> heap[exp.mref]]

Init ==
    \E cfg \in Configs :
        /\ pc = "new"
        /\ cell = [cell_type |-> cfg.cell_type, source |-> cfg.source, metadata |-> "cell"]
        /\ given = cfg
        /\ heap = [cell |-> cfg.metadata, exporter |-> <<>>]
        /\ fmt = cfg.fmt
        /\ exp = NoExporter(cfg.cls, cfg.default_language)
        /\ text = <<>>
        /\ ret = FALSE
        /\ last = NoCall
        /\ warnings = 0
        /\ err = ""
        /\ ncalls = 0

\* exporter = cls(cell, default_language, fmt)
Construct ==
    /\ pc = "new"
    /\ \E r \in {Exporter_init(exp.cls, cell, heap[cell.metadata], exp.default_language, fmt)} :
          /\ fmt' = r.fmt
          /\ warnings' = IF r.warned THEN warnings + 1 ELSE warnings
          /\ IF r.raised
             THEN /\ pc' = "failed"
                  /\ err' = "ValueError"
                  /\ UNCHANGED <<exp, heap>>
             ELSE /\ pc' = "built"
                  /\ err' = ""
                  /\ exp' = r.exp
                  /\ heap' = [heap EXCEPT ![r.exp.mref] = r.metadata]
    /\ last' = [NoCall EXCEPT !.op = "init"]
    /\ UNCHANGED <<cell, given, text, ret, ncalls>>

\* exporter.is_code()
IsCode ==
    /\ pc \in {"built", "exported"}
    /\ ncalls < MaxCalls
    /\ \E r \in {is_code(exp, heap[exp.mref])} :
          /\ exp' = r.exp
          /\ heap' = [heap EXCEPT ![exp.mref] = r.metadata]
          /\ ret' = r.ret
    /\ last' = Call("is_code", <<>>, 0)
    /\ ncalls' = ncalls + 1
    /\ UNCHANGED <<pc, cell, given, fmt, text, warnings, err>>

\* text = exporter.cell_to_text()
CellToText ==
    /\ pc \in {"built", "exported"}
    /\ ncalls < MaxCalls
    /\ \E r \in {cell_to_text(exp, heap[exp.mref], heap[exp.uref])} :
          /\ exp' = r.exp
          /\ heap' = [heap EXCEPT ![exp.mref] = r.metadata]
          /\ text' = r.lines
    /\ pc' = "exported"
    /\ last' = Call("cell_to_text", <<>>, 0)
    /\ ncalls' = ncalls + 1
    /\ UNCHANGED <<cell, given, fmt, ret, warnings, err>>

\* text = exporter.remove_eoc_marker(text, next_text)
RemoveEocMarker ==
    /\ pc = "exported"
    /\ ncalls < MaxCalls
    /\ \E next_text \in NextTexts(exp.cls) :
         IF exp.cls \notin LightClasses \/ Truthy(exp.cell_marker_start)
         THEN /\ last' = Call("remove_eoc_marker", next_text, 0)
              /\ UNCHANGED <<pc, exp, heap, text, err>>
         ELSE \E c \in {is_code(exp, heap[exp.mref])} :
              LET asked == /\ c.ret /\ text # <<>> /\ Last(text) = exp.comment \o <<" ", "-">>
                           /\ ~(next_text = <<>> \/
                                StartsWith(next_text[1], exp.comment \o <<" ", "+", " ", "{">>))
                           /\ exp.lines_to_end_of_cell_marker = None
              IN \E pep8 \in IF asked THEN 0..2 ELSE {0} :
                   /\ last' = Call("remove_eoc_marker", next_text, pep8)
                   /\ heap' = [heap EXCEPT ![exp.mref] = c.metadata]
                   /\ IF c.ret /\ text = <<>>
                      THEN /\ pc' = "failed"
                           /\ err' = "IndexError"
                           /\ exp' = c.exp
                           /\ UNCHANGED text
                      ELSE \E r \in {remove_eoc_marker(c.exp, c.ret, text, next_text, pep8)} :
                              /\ text' = r.text
                              /\ exp' = [c.exp EXCEPT !.lines_to_next_cell = r.lines_to_next_cell]
                              /\ UNCHANGED <<pc, err>>
    /\ ncalls' = ncalls + 1
    /\ UNCHANGED <<cell, given, fmt, ret, warnings>>

\* text = exporter.simplify_soc_marker(text, prev_text)
SimplifySocMarker ==
    /\ pc = "exported"
    /\ ncalls < MaxCalls
    /\ \E prev_text \in PrevTexts(exp.cls) :
         /\ last' = Call("simplify_soc_marker", prev_text, 0)
         /\ IF exp.cls \notin LightClasses \/ Truthy(exp.cell_marker_start)
            THEN UNCHANGED <<exp, heap, text>>
            ELSE \E c \in {is_code(exp, heap[exp.mref])} :
                    /\ exp' = c.exp
                    /\ heap' = [heap EXCEPT ![exp.mref] = c.metadata]
                    /\ text' = simplify_soc_marker(c.exp, c.ret, text, prev_text)
    /\ ncalls' = ncalls + 1
    /\ UNCHANGED <<pc, cell, given, fmt, ret, warnings, err>>

Next == Construct \/ IsCode \/ CellToText \/ RemoveEocMarker \/ SimplifySocMarker

Spec == Init /\ [][Next]_vars

---------------------------------------------------------------------------
(* Properties of the exporters *)

\* The call that produced the present state
JustBuilt == pc = "built" /\ last.op = "init"
JustExported == pc = "exported" /\ last.op = "cell_to_text"
JustRemoved == pc = "exported" /\ last.op = "remove_eoc_marker"

\* A light-script export that has a start line and an end line around the
\* rendered source
RenderedAt(call) ==
    With(is_code(call.exp_in, call.md_in), LAMBDA c :
         LightScript_rendered_source(c.exp, c.metadata))
Marked ==
    /\ JustExported
    /\ exp.cls \in LightClasses
    /\ Len(text) = Len(RenderedAt(last)) + 2
\* The lines between the start line and the end line
Body == SubSeq(text, 2, Len(text) - 1)

\* The text a freshly built exporter gives for a cell under a configuration
Export(cfg) ==
    With(Exporter_init(cfg.cls,
                       [cell_type |-> cfg.cell_type, source |-> cfg.source,
                        metadata |-> "cell"],
                       cfg.metadata, cfg.default_language, cfg.fmt), LAMBDA r :
         cell_to_text(r.exp, r.metadata, cfg.metadata).lines)

\* The lines of a source without its trailing blank lines
RECURSIVE StripTrailingBlank(_)
StripTrailingBlank(lines) ==
    IF lines # <<>> /\ Last(lines) = <<>> THEN StripTrailingBlank(Front(lines)) ELSE lines

\* Two cells a round trip may not tell apart: same type, same source up to
\* trailing blank lines, same metadata once filtered
SameCell(a, b) ==
    /\ a.cell_type = b.cell_type
    /\ StripTrailingBlank(cell_source(a)) = StripTrailingBlank(cell_source(b))
    /\ filter_metadata(a.metadata, a.fmt.cell_metadata_filter)
         = filter_metadata(b.metadata, b.fmt.cell_metadata_filter)

\* The cells of the other types and of other short sources, under the same
\* configuration
Alternatives(cfg) ==
    {[cfg EXCEPT !.cell_type = ct, !.source = src] :
        ct \in CellTypes, src \in SourcesOver({LineX, LineBlank, LineQuotes}, 1)}

\* C1: the text of a cell determines the cell: a reader given the lines of
\* cell_to_text can rebuild the type, source and metadata of the cell only
\* if no other cell (other up to trailing blank lines and filtered keys)
\* has the same text under the same configuration.
C1_TextDeterminesCell ==
    (JustExported /\ ncalls = 1) =>
        \A other \in Alternatives(given) :
            Export(other) = text => SameCell(other, given)

\* C2: an exported light-script cell with markers has no line between its
\* start line and its end line that equals the end line.
C2_EndMarkerDoesNotCollide ==
    Marked => \A i \in 1..Len(Body) : Body[i] # Last(text)

\* n dashes
Dashes(n) == [i \in 1..n |-> "-"]
\* The token of the end line of an exported cell
EndToken == DropN(Last(text), Len(exp.comment) + 1)
\* A cell exported with the markers '+' and the computed end token
MarkedByDefault == Marked /\ ~Truthy(exp.cell_marker_end)

\* C3: the end token endofcell_marker computes is the shortest run of k >= 1
\* dashes that no line of the rendered source matches, and k is at most
\* the number of source lines plus one.
C3_ShortestFreeToken ==
    MarkedByDefault =>
        /\ Len(EndToken) \in 1..(Len(Body) + 1)
        /\ EndToken = Dashes(Len(EndToken))
        /\ EndToken = endofcell_marker(RenderedAt(last), exp.comment)
        /\ \A i \in 1..Len(Body) : ~endofcell_re_match(Body[i], exp.comment, EndToken)
        /\ \A k \in 1..(Len(EndToken) - 1) :
              \E i \in 1..Len(Body) : endofcell_re_match(Body[i], exp.comment, Dashes(k))
\* The source holds every shorter token and the end token is one longer
\* than the cell has lines
C3_Witness ==
    /\ MarkedByDefault
    /\ Len(Body) = MaxLines
    /\ Len(EndToken) = Len(Body) + 1

\* What is_code answered inside the call, and the exporter it left
IsCodeAt(call) == is_code(call.exp_in, call.md_in)
\* The line comment + ' -', the default end-of-cell marker
DefaultEndLine(e) == e.comment \o <<" ", "-">>
\* A line comment + ' ' + dashes: an end-of-cell marker, escalated or not
IsEndLine(e, line) ==
    /\ Len(line) > Len(e.comment) + 1
    /\ line = e.comment \o <<" ">> \o Dashes(Len(line) - Len(e.comment) - 1)
\* A text with a '+' start line and a dash end line
MarkedText(e, t) ==
    /\ use_cell_markers(e.cls)
    /\ Len(t) >= 2
    /\ StartsWith(t[1], e.comment \o <<" ", "+">>)
    /\ IsEndLine(e, Last(t))
\* next_text opens with an explicit start marker carrying options
OpensWithStart(e, next_text) ==
    next_text # <<>> /\ StartsWith(next_text[1], e.comment \o <<" ", "+", " ", "{">>)
\* The larger of the stored counts, None when neither is stored
MaxStored(a, b) ==
    IF a = None THEN b ELSE IF b = None THEN a
    ELSE IF The(a) > The(b) THEN a ELSE b
\* A call of remove_eoc_marker on a light-script exporter with the default
\* markers, for a cell is_code takes as code
RemovedByDefault ==
    /\ JustRemoved
    /\ exp.cls \in LightClasses
    /\ ~Truthy(last.exp_in.cell_marker_start)
    /\ IsCodeAt(last).ret
    /\ last.text_in # <<>>

\* C4 as stated: whenever the text ends with an end-of-cell marker and the
\* next text opens with an explicit start marker, the end line is removed
\* and lines_to_next_cell becomes the maximum of the two stored counts.
C4_AsStated ==
    (/\ JustRemoved
     /\ exp.cls \in LightClasses
     /\ IsCodeAt(last).ret
     /\ MarkedText(last.exp_in, last.text_in)
     /\ OpensWithStart(last.exp_in, last.arg)) =>
        /\ text = Front(last.text_in)
        /\ exp.lines_to_next_cell = MaxStored(last.exp_in.lines_to_end_of_cell_marker,
                                              last.exp_in.lines_to_next_cell)

\* C4: with the default markers, when the last line is exactly comment + ' -'
\* and next_text is empty or opens with comment + ' + {', that line is removed
\* and lines_to_next_cell becomes lines_to_end_of_cell_marker if that is
\* recorded, not zero, and lines_to_next_cell is absent or smaller; it is
\* unchanged otherwise.  An end line of two or more dashes is never removed.
C4_RemovesDefaultEndLine ==
    RemovedByDefault =>
        LET e == last.exp_in
            eoc == e.lines_to_end_of_cell_marker
            nxt == e.lines_to_next_cell
        IN /\ (Last(last.text_in) = DefaultEndLine(e)
               /\ (last.arg = <<>> \/ OpensWithStart(e, last.arg))) =>
                  /\ text = Front(last.text_in)
                  /\ exp.lines_to_next_cell =
                       IF eoc \notin {None, Some(0)} /\ (nxt = None \/ The(eoc) > The(nxt))
                       THEN eoc ELSE nxt
           /\ Last(last.text_in) # DefaultEndLine(e) =>
                  /\ text = last.text_in
                  /\ exp.lines_to_next_cell = nxt
\* The end line was removed and its larger count taken for the next cell
C4_Witness ==
    /\ RemovedByDefault
    /\ MarkedText(last.exp_in, last.text_in)
    /\ OpensWithStart(last.exp_in, last.arg)
    /\ text = Front(last.text_in)
    /\ last.exp_in.lines_to_next_cell # None
    /\ exp.lines_to_next_cell = last.exp_in.lines_to_end_of_cell_marker
    /\ exp.lines_to_next_cell # last.exp_in.lines_to_next_cell

\* The blank lines the claim asks for before the end line
BlankLinesWanted(call) ==
    IF call.exp_in.lines_to_end_of_cell_marker # None
    THEN The(call.exp_in.lines_to_end_of_cell_marker)
    ELSE IF call.pep8 >= 2 THEN 2 ELSE 0

\* C5 as stated: whenever the text ends with the end-of-cell marker and the
\* next text does not open with an explicit start marker, the marker stays
\* last and the blank lines are inserted before it.
C5_AsStated ==
    (/\ JustRemoved
     /\ exp.cls \in LightClasses
     /\ IsCodeAt(last).ret
     /\ MarkedText(last.exp_in, last.text_in)
     /\ ~OpensWithStart(last.exp_in, last.arg)) =>
        text = Front(last.text_in) \o Repeat(<<>>, BlankLinesWanted(last))
               \o <<Last(last.text_in)>>

\* C5: with the default markers, when the last line is exactly comment + ' -'
\* and next_text is not empty and does not open with comment + ' + {', the
\* line stays last and exactly lines_to_end_of_cell_marker blank lines (when
\* recorded), else 0 or 2 by the pep8 rule, are inserted before it; the other
\* lines and lines_to_next_cell are unchanged.
C5_InsertsBlankLines ==
    (/\ RemovedByDefault
     /\ Last(last.text_in) = DefaultEndLine(last.exp_in)
     /\ last.arg # <<>>
     /\ ~OpensWithStart(last.exp_in, last.arg)) =>
        /\ text = Front(last.text_in) \o Repeat(<<>>, BlankLinesWanted(last))
                  \o <<Last(last.text_in)>>
        /\ exp.lines_to_next_cell = last.exp_in.lines_to_next_cell
\* Two blank lines were inserted because the pep8 rule asked for them
C5_Witness ==
    /\ RemovedByDefault
    /\ MarkedText(last.exp_in, last.text_in)
    /\ last.arg # <<>>
    /\ ~OpensWithStart(last.exp_in, last.arg)
    /\ last.exp_in.lines_to_end_of_cell_marker = None
    /\ last.pep8 = 2
    /\ Len(text) = Len(last.text_in) + 2
    /\ text[Len(text) - 1] = <<>>
    /\ Last(text) = DefaultEndLine(exp)

\* An export by a light-script exporter that writes markers, of a cell
\* is_code takes as code
ExportedCode ==
    /\ JustExported
    /\ exp.cls = "LightScript"
    /\ IsCodeAt(last).ret
\* every line of the cell's raw source starts with the comment prefix
AllComment(e) == \A i \in 1..Len(e.source) : StartsWith(e.source[i], e.comment)
\* the reader stops before the end of the rendered source
ReaderStopsShort(source) == LightScriptCellReader_read_pos(source) < Len(source)
\* a custom pair is configured and the first rendered line looks like one of
\* its markers
LooksLikeCustomMarker(e, source) ==
    /\ Truthy(e.cell_marker_start)
    /\ \/ start_code_re_match(source[1], e.comment, The(e.cell_marker_start))
       \/ end_code_re_match(source[1], e.comment, The(e.cell_marker_end))

\* C6 as stated: the cell has markers exactly when it has metadata, or a
\* custom pair is configured, or every raw line is a comment, or the reader
\* stops short of the rendered source.
C6_AsStated ==
    ExportedCode =>
        LET c == IsCodeAt(last)
            source == RenderedAt(last)
        IN (Len(text) = Len(source) + 2) <=>
              \/ c.metadata # <<>>
              \/ Truthy(c.exp.cell_marker_start)
              \/ AllComment(c.exp)
              \/ ReaderStopsShort(source)

\* C6: the cell has markers exactly when it has metadata, or when its first
\* rendered line does not look like a marker of the configured custom pair
\* and every raw line is a comment or the reader stops short; without
\* markers the text is the rendered source.
C6_ExplicitStartMarker ==
    ExportedCode =>
        LET c == IsCodeAt(last)
            source == RenderedAt(last)
            needed == \/ c.metadata # <<>>
                      \/ /\ ~LooksLikeCustomMarker(c.exp, source)
                         /\ (AllComment(c.exp) \/ ReaderStopsShort(source))
        IN /\ (Len(text) = Len(source) + 2) <=> needed
           /\ ~needed => text = source
\* A custom pair is configured, every raw line is a comment, and the cell
\* is exported without markers
C6_Witness ==
    /\ ExportedCode
    /\ Truthy(exp.cell_marker_start)
    /\ AllComment(IsCodeAt(last).exp)
    /\ text = RenderedAt(last)

\* The exporter was built: the constructor returned
Built == pc \in {"built", "exported"}

\* C7: a Sphinx Gallery exporter asked for with rst2md enabled is never
\* built: the constructor raises ValueError, no operation of the exporter
\* runs and no line of text exists; with rst2md absent or false the
\* constructor returns.
C7_Rst2mdRaises ==
    (given.cls = "SphinxGallery" /\ pc # "new") =>
        IF given.fmt.rst2md = Some(TRUE)
        THEN /\ pc = "failed"
             /\ err = "ValueError"
             /\ text = <<>>
             /\ ncalls = 0
        ELSE Built /\ err = ""
\* The constructor raised for a markdown cell
C7_Witness ==
    /\ given.cls = "SphinxGallery"
    /\ given.cell_type = "markdown"
    /\ given.fmt.rst2md = Some(TRUE)
    /\ pc = "failed"
    /\ err = "ValueError"

\* The same configuration without the cell_markers option
WithoutMarkers(cfg) == [cfg EXCEPT !.fmt.cell_markers = None]
\* The option splits at its first comma into start and end
SplitsInto(cm, start, end) ==
    \E i \in 1..Len(cm) :
        /\ cm[i] = ","
        /\ \A j \in 1..(i - 1) : cm[j] # ","
        /\ start = SubSeq(cm, 1, i - 1)
        /\ end = SubSeq(cm, i + 1, Len(cm))

\* C8: a light-script exporter given cell_markers without a comma warns
\* once, is built without an error, drops the option and exports the cell
\* as without the option; given a pair other than '+,-' it takes the parts around the
\* first comma as its start and end tokens, without a warning.
C8_MalformedMarkersIgnored ==
    (given.cls \in LightClasses /\ pc # "new") =>
        LET cm == given.fmt.cell_markers
        IN IF cm # None /\ "," \notin Range(The(cm))
           THEN /\ warnings = 1
                /\ last.op = "init" => (pc = "built" /\ err = "")
                /\ fmt.cell_markers = None
                /\ exp.cell_marker_start = None /\ exp.cell_marker_end = None
                /\ (JustExported /\ ncalls = 1) => text = Export(WithoutMarkers(given))
           ELSE /\ warnings = 0
                /\ fmt = given.fmt
                /\ IF cm # None /\ The(cm) # <<"+", ",", "-">>
                   THEN /\ exp.cell_marker_start # None /\ exp.cell_marker_end # None
                        /\ SplitsInto(The(cm), The(exp.cell_marker_start),
                                      The(exp.cell_marker_end))
                   ELSE exp.cell_marker_start = None /\ exp.cell_marker_end = None
\* A cell with metadata exported under a malformed option, with the
\* default markers
C8_Witness ==
    /\ given.cls = "LightScript"
    /\ given.fmt.cell_markers = Some(MarkersMalformed)
    /\ JustExported
    /\ warnings = 1
    /\ Len(text) >= 3
    /\ StartsWith(text[1], <<"#", " ", "+">>)
    /\ Last(text) = DefaultEndLine(exp)

\* C9: the caller's cell is as it was given, whatever was called: its
\* type, its source, and the keys and values of its metadata.
C9_CellUnchanged ==
    /\ cell.cell_type = given.cell_type
    /\ cell.source = given.source
    /\ cell.metadata = "cell"
    /\ heap[cell.metadata] = given.metadata
\* The exporter popped the title from its metadata and added endofcell;
\* the cell still has its title and no endofcell
C9_Witness ==
    /\ pc = "exported"
    /\ Has(heap[cell.metadata], "title")
    /\ ~Has(heap[exp.mref], "title")
    /\ Has(heap[exp.mref], "cell_type") \/ Has(heap[exp.mref], "active")
    /\ ncalls = MaxCalls

\* The language the source of the cell names, None for a class that does not
\* parse it
Detected ==
    IF parse_cell_language(given.cls) THEN cell_language(cell_source(cell)).language
    ELSE None

\* C10 as stated: the language of the exporter of a code cell is the one
\* detected, else the default; the metadata has 'language' only when one was
\* detected that is not the default, and never for R Markdown.
C10_AsStated ==
    (JustBuilt /\ given.cell_type = "code") =>
        /\ exp.language = (IF Detected # None THEN Detected ELSE given.default_language)
        /\ Has(heap[exp.mref], "language") <=>
              /\ Detected # None
              /\ Detected # given.default_language
              /\ ~EndsWithRmd(given.fmt.extension)

\* C10: the language of the exporter is the one detected, else the default;
\* the metadata has 'language', with the detected language, whenever one was
\* detected, be it the default, and the extension is not '.Rmd'.
C10_LanguageWritten ==
    JustBuilt =>
        /\ exp.language = (IF Detected # None THEN Detected ELSE given.default_language)
        /\ Has(heap[exp.mref], "language") <=>
              \/ Detected # None /\ ~EndsWithRmd(given.fmt.extension)
              \/ Has(filter_metadata(given.metadata, given.fmt.cell_metadata_filter),
                     "language")
        /\ (Detected # None /\ ~EndsWithRmd(given.fmt.extension)) =>
              Get(heap[exp.mref], "language") = <<The(Detected)>>
\* The default language, detected in a code cell, is written
C10_Witness ==
    /\ JustBuilt
    /\ given.cell_type = "code"
    /\ Detected # None
    /\ Detected = given.default_language
    /\ Has(heap[exp.mref], "language")

\* The entries of the cell's metadata the filter of the format drops
Dropped(cfg) ==
    {i \in 1..Len(cfg.metadata) :
        ~Has(filter_metadata(cfg.metadata, cfg.fmt.cell_metadata_filter), cfg.metadata[i][1])}
\* v is a run of consecutive tokens of line
Contains(line, v) ==
    \E k \in 0..(Len(line) - Len(v)) : SubSeq(line, k + 1, k + Len(v)) = v

\* C11: no line of the exported text holds the key or the stored value of a
\* metadata entry the filter drops, in options or as a marker line.
C11_DroppedKeysNotWritten ==
    JustExported =>
        \A i \in Dropped(given) : \A n \in 1..Len(text) :
            /\ given.metadata[i][1] \notin Range(text[n])
            /\ given.metadata[i][1] \notin NumericKeys =>
                  ~Contains(text[n], given.metadata[i][2])

\* An export through the code_to_text of the R Markdown or R script exporter
ExportedChunk ==
    /\ JustExported
    /\ \/ exp.cls = "RMarkdown" /\ exp.cell_type # "markdown"
       \/ exp.cls = "RScript" /\ BaseCellExporter_is_code(last.exp_in, last.md_in)
\* The format the exporter writes, as is_active is asked about it
TargetFormat == IF exp.cls = "RMarkdown" THEN "Rmd" ELSE "R"
\* The metadata with eval False, whatever eval it had
EvalForced(md) ==
    IF \E i \in 1..Len(md) : md[i][1] = "eval"
    THEN [i \in 1..Len(md) |-> IF md[i][1] = "eval" THEN <<"eval", <<"FALSE">>>> ELSE md[i]]
    ELSE md \o << <<"eval", <<"FALSE">>>> >>
\* The metadata the options of the chunk header are to be computed from
ChunkMetadata ==
    IF is_active(TargetFormat, last.md_in) THEN last.md_in ELSE EvalForced(last.md_in)
\* The header line of the chunk for the given options, None when there is none
ChunkHeader(options) ==
    IF exp.cls = "RMarkdown" THEN Some(Fence \o <<"{">> \o options \o <<"}">>)
    ELSE IF options # <<>> THEN Some(<<"#", "+", " ">> \o options)
    ELSE None

\* C12: the chunk header of an R Markdown or R script cell holds the options
\* of the metadata with eval False when 'active' excludes the format, and
\* the options of the metadata as stored when the cell is active.
C12_EvalForcedWhenInactive ==
    ExportedChunk =>
        LET header == ChunkHeader(metadata_to_rmd_options(
                          IF exp.cls = "RMarkdown" THEN exp.language ELSE None,
                          ChunkMetadata))
        IN /\ heap[exp.mref] = ChunkMetadata
           /\ header # None => text[1] = The(header)
           /\ header = None => Len(text) = Len(exp.source)
\* A cell that stored eval TRUE and is not active for the format has
\* eval=FALSE in its header
C12_Witness ==
    /\ ExportedChunk
    /\ Has(last.md_in, "eval")
    /\ Get(last.md_in, "eval") = <<"TRUE">>
    /\ ~is_active(TargetFormat, last.md_in)
    /\ Contains(text[1], <<"eval", "=", "FALSE">>)
    /\ ~Contains(text[1], <<"eval", "=", "TRUE">>)

\* The cell marker configured for a double-percent cell: the one of the
\* cell's metadata, else the one of the format; None when there is none
ConfiguredMarker ==
    IF Has(given.metadata, "cell_marker") THEN Some(Get(given.metadata, "cell_marker"))
    ELSE given.fmt.cell_markers
\* An export by a double-percent or Hydrogen exporter
ExportedPercent == JustExported /\ exp.cls \in {"DoublePercent", "Hydrogen"}

HeldSource == IF Detected # None THEN Tail(cell_source(cell)) ELSE cell_source(cell)

ExportedSphinxCode ==
    /\ JustExported
    /\ exp.cls = "SphinxGallery"
    /\ given.cell_type = "code"
    /\ given.fmt.comment_magics = None

\* C14: a Sphinx Gallery code cell is exported as the source lines of the
\* cell, unmodified and in order, with no line before or after them, when
\* comment_magics is left at its default.
C14_CodePassesThrough == ExportedSphinxCode => text = cell_source(cell)

\* An export of a markdown cell by a Markdown or R Markdown exporter
ExportedMarkdownCell ==
    /\ JustExported
    /\ exp.cls \in {"Markdown", "RMarkdown"}
    /\ given.cell_type = "markdown"
\* The lines are wrapped in an HTML region
InRegion(lines, source) ==
    /\ Len(lines) = Len(source) + 2
    /\ StartsWith(lines[1], <<"<!--", " ", "#", "region">>)
    /\ Last(lines[1]) = "-->"
    /\ SubSeq(lines, 2, Len(lines) - 1) = source
    /\ Last(lines) = <<"<!--", " ", "#", "end", "region", " ", "-->">>
\* The metadata of the cell after filtering
FilteredMetadata == filter_metadata(given.metadata, given.fmt.cell_metadata_filter)

HeldMetadata ==
    IF Detected # None /\ exp.cls # "RMarkdown"
    THEN Set(FilteredMetadata, "language", <<The(Detected)>>)
    ELSE FilteredMetadata

NewlineOnly(s) == "\r" \notin Range(s)
\* The number of newline characters of the source
Newlines(s) == Cardinality({i \in 1..Len(s) : s[i] = "\n"})
\* Sources to compare the source of the cell with
OtherSources == SourcesOver({LineX, LineBlank, LineMagicR}, MaxLines)

\* C16: cell_source never returns an empty list: the empty source gives [''],
\* a source ending with a newline gives its lines and one trailing empty
\* line, any other source gives its lines; for a source whose only line
\* terminator is the newline, joining the lines with newlines gives back the
\* source, so no other source gives the same lines. The exporter built from
\* the cell holds these lines when no first line names a language.
C16_SourceLines ==
    LET s == cell.source
        lines == cell_source(cell)
    IN /\ Len(lines) >= 1
       /\ s = <<>> => lines = << <<>> >>
       /\ (s # <<>> /\ Last(s) = "\n") =>
             (Last(lines) = <<>> /\ Front(lines) = splitlines(s))
       /\ (s # <<>> /\ Last(s) # "\n") => lines = splitlines(s)
       /\ NewlineOnly(s) =>
             /\ Len(lines) = Newlines(s) + 1
             /\ Join(lines, <<"\n">>) = s
             /\ \A t \in OtherSources :
                   cell_source([cell EXCEPT !.source = t]) = lines => t = s
       /\ (JustBuilt /\ Detected = None) => exp.source = lines
\* An exporter built from a source that ends with a newline
C16_Witness ==
    /\ JustBuilt
    /\ Detected = None
    /\ cell.source # <<>>
    /\ Last(cell.source) = "\n"
    /\ Len(cell.source) >= 2
    /\ Len(exp.source) >= 2
    /\ Last(exp.source) = <<>>
    /\ Join(exp.source, <<"\n">>) = cell.source

\* A call of remove_eoc_marker or simplify_soc_marker on a light-script or
\* bare-script exporter whose text is the rendered source alone: code_to_text
\* gave it no start line and no end line
PostProcessedUnmarked ==
    /\ pc = "exported"
    /\ last.op \in {"remove_eoc_marker", "simplify_soc_marker"}
    /\ exp.cls \in LightClasses
    /\ IsCodeAt(last).ret
    /\ last.text_in = RenderedAt(last)

\* C17: remove_eoc_marker and simplify_soc_marker never remove or rewrite a
\* line of the rendered source: a text that code_to_text returned without
\* markers comes back as it was handed in, also when its last line is '# -'
\* or its first line is '# + {}'.
C17_SourceLinesKept == PostProcessedUnmarked => text = last.text_in

\* The end token of a marked text: its last line after comment + ' '
EmittedEndToken == DropN(Last(text), Len(exp.comment) + 1)
\* The options entry "endofcell": "value"
EndofcellEntry(value) == <<"\"", "endofcell", "\"", ":", " ", "\"">> \o value \o <<"\"">>

JustAsked == last.op = "is_code" /\ exp.cls \in LightClasses

\* C19: LightScriptCellExporter.is_code is idempotent: after one call, one
\* more call returns the same value and leaves the source and the metadata
\* of the exporter as they are; the lines of a markdown cell with metadata
\* are comment-prefixed once.
C19_IsCodeIdempotent ==
    JustAsked =>
        /\ is_code(exp, heap[exp.mref]).ret = ret
        /\ is_code(exp, heap[exp.mref]).exp.source = exp.source
        /\ is_code(exp, heap[exp.mref]).metadata = heap[exp.mref]

=============================================================================
